---- MODULE Spec2Model ----
(***************************************************************************)
(* Model of the LangGraph quality workflow                                 *)
(* (src/src/workflow/langgraph_quality_workflow.py), of its caller         *)
(* LangGraphIntegration.run_enhanced_workflow                              *)
(* (src/src/workflow/langgraph_integration.py) and of                      *)
(* InputProcessor.process (src/src/workflow/multi_prompt_system.py).       *)
(*                                                                         *)
(* None is the string "None"; a prompt is a short tag ("dalle" is the      *)
(* DALL-E prompt of the pipeline, "optimized" a GPT-4 rewrite, "" the      *)
(* empty string); an error message is the fixed prefix the handler writes. *)
(***************************************************************************)
EXTENDS Integers, Sequences, FiniteSets, TLC

VARIABLES
    node,                   \* position in the StateGraph (next node to run, or "END")
    current_attempt,        \* QualityWorkflowState.current_attempt
    max_attempts,           \* QualityWorkflowState.max_attempts
    target_quality_score,   \* QualityWorkflowState.target_quality_score
    current_quality_score,  \* QualityWorkflowState.current_quality_score
    current_prompt,         \* QualityWorkflowState.current_prompt
    optimization_strategy,  \* QualityWorkflowState.optimization_strategy
    final_result,           \* QualityWorkflowState.final_result
    quality_history,        \* QualityWorkflowState.quality_history (strategies, newest last)
    workflow_completed,     \* QualityWorkflowState.workflow_completed
    success,                \* QualityWorkflowState.success
    error_message,          \* QualityWorkflowState.error_message
    opt_runs,               \* history: optimisation-node executions so far (saturating)
    opt_completed,          \* history: optimisation nodes that completed normally (saturating)
    gen_failed,             \* history: generate_initial_prompt took its except branch
    stage,                  \* position inside run_enhanced_workflow
    generate_image,         \* run_enhanced_workflow's generate_image argument
    workflow_result,        \* the dict returned by run_quality_workflow
    image_result,           \* run_enhanced_workflow's image_result
    image_calls,            \* history: how often image generation was started
    enhanced_result,        \* the dict returned by run_enhanced_workflow
    raw_input,              \* InputProcessor.process: the text entries of streamlit_input
    raw_colors,             \* InputProcessor.process: the colour entries of streamlit_input
    structured,             \* InputProcessor.process: the StructuredInput it returned
    call,                   \* a single function call: the function and its arguments
    ret                     \* that call's outcome: returned value or raised

wfVars == <<node, current_attempt, max_attempts, target_quality_score,
            current_quality_score, current_prompt, optimization_strategy,
            final_result, quality_history, workflow_completed, success,
            error_message, opt_runs, opt_completed, gen_failed>>
intVars == <<stage, generate_image, workflow_result, image_result, image_calls,
             enhanced_result>>
ipVars == <<raw_input, raw_colors, structured>>
fnVars == <<call, ret>>
vars == <<wfVars, intVars, ipVars, fnVars>>

\* no single call under way, nothing returned
NoCall == [fn |-> "None"]
NoRet == [done |-> FALSE, raised |-> FALSE]

Min(a, b) == IF a <= b THEN a ELSE b

(***************************************************************************)
(* Bounds of the model                                                     *)
(***************************************************************************)
MaxAttemptsBound == 3      \* max_attempts ranges over 0..MaxAttemptsBound
OptRunsCap == 5            \* opt_runs and opt_completed saturate here
HistoryCap == 3            \* quality_history keeps its newest HistoryCap entries
MaxPlacements == 6         \* text placements of a layout
MaxPad == 2                \* leading / trailing blanks of a raw text value
MaxOver == 4               \* characters a raw text value exceeds its cap by
MaxColorLen == 8           \* length of a supplied colour string
MaxHeadlineLen == 52       \* length of the headline given to _apply_adaptive_rules
MaxBenefits == 7           \* number of benefits given to _apply_adaptive_rules
MaxZones == 3              \* number of zones of a layout definition
MaxChunks == 2             \* number of chunks of the base prompt given to the GPT-5 generator
MaxLines == 3              \* number of lines of the text given to _optimize_prompt
MaxRetries == 3            \* max_retries of auto_optimize_prompt_quality
MaxPromptLen == 3          \* length of a prompt handed to the image generator
MaxBenefitItems == 4       \* number of items of the benefits placement

(***************************************************************************)
(* Program constants                                                       *)
(***************************************************************************)
MaxScore == 100
FallbackScore == 87
CriticalLimit == 60
StructureLimit == 75
StyleLimit == 85
MjMinLen == 200
MjMaxLen == 800
DalleMaxLen == 4000
DefaultTarget == 85
DefaultMaxAttempts == 3

TargetScores == 0..MaxScore
MaxAttemptsSet == 0..MaxAttemptsBound

OptNodes == {"optimize_critical", "optimize_structure", "optimize_style",
             "optimize_fine_tuning"}
Strategies == {"critical_optimization", "structure_optimization",
               "style_optimization", "fine_tuning"}

(***************************************************************************)
(* QualityWorkflowState                                                    *)
(***************************************************************************)
NoResult == [kind |-> "None", overall_score |-> -1]

\* to_dict: a final_result that is set is replaced by a plain dict built with
\* getattr(..., default); a FinalizedPrompts keeps its quality_assessment, a
\* dict (no such attribute) gets the default {}.
to_dict(fr) ==
    IF fr.kind = "None" THEN fr
    ELSE [kind |-> "dict",
          overall_score |-> IF fr.kind = "FinalizedPrompts"
                            THEN fr.overall_score ELSE -1]

(***************************************************************************)
(* PromptFinalizer._assess_overall_quality                                 *)
(***************************************************************************)
\* variant: the sum of the five scores is divided by four
AssessOverallQuality_wrongDivisor(has_layout, n_text, mj_len, dalle_len, has_adaptive) ==
    LET layout_score == IF has_layout THEN 90 ELSE 50
        text_score == Min(100, n_text * 20)
        mj_score == IF MjMinLen <= mj_len /\ mj_len <= MjMaxLen THEN 90 ELSE 70
        dalle_score == IF dalle_len <= DalleMaxLen THEN 95 ELSE 50
        adaptive_score == IF has_adaptive THEN 100 ELSE 80
    IN (layout_score + text_score + mj_score + dalle_score + adaptive_score) \div 4

AssessOverallQuality(has_layout, n_text, mj_len, dalle_len, has_adaptive) ==
    LET layout_score == IF has_layout THEN 90 ELSE 50
        text_score == Min(100, n_text * 20)
        mj_score == IF MjMinLen <= mj_len /\ mj_len <= MjMaxLen THEN 90 ELSE 70
        dalle_score == IF dalle_len <= DalleMaxLen THEN 95 ELSE 50
        adaptive_score == IF has_adaptive THEN 100 ELSE 80
    IN (layout_score + text_score + mj_score + dalle_score + adaptive_score) \div 5

MjLens == {MjMinLen - 1, MjMinLen, MjMaxLen, MjMaxLen + 1}
DalleLens == {DalleMaxLen, DalleMaxLen + 1, 100 * DalleMaxLen}

(***************************************************************************)
(* generate_initial_prompt                                                 *)
(***************************************************************************)
\* the score taken from the pipeline's result: overall_score when the result
\* has a non-empty quality_assessment, else the prompt-length fallback
InitialScore(has_assessment, overall, prompt_length) ==
    IF has_assessment THEN overall
    ELSE Min(100, 60 + (prompt_length \div 100))

generate_initial_prompt ==
    /\ stage = "run_quality_workflow"
    /\ node = "generate_initial"
    /\ \/ \E has_layout \in BOOLEAN, n_text \in 0..MaxPlacements,
             mj_len \in MjLens, dalle_len \in DalleLens, has_adaptive \in BOOLEAN :
            LET overall == AssessOverallQuality(has_layout, n_text, mj_len,
                                                dalle_len, has_adaptive)
                score == InitialScore(TRUE, overall, dalle_len)
            IN /\ current_prompt' = "dalle"
               /\ current_quality_score' = score
               /\ final_result' = to_dict([kind |-> "FinalizedPrompts",
                                           overall_score |-> overall])
               /\ quality_history' = Append(quality_history, "initial_generation")
               /\ UNCHANGED <<error_message, success, workflow_completed, gen_failed>>
       \/ \* except: multi-prompt pipeline raised
          /\ error_message' = "Initial generation failed"
          /\ success' = FALSE
          /\ workflow_completed' = TRUE
          /\ gen_failed' = TRUE
          /\ final_result' = to_dict(final_result)
          /\ UNCHANGED <<current_prompt, current_quality_score, quality_history>>
    /\ node' = "assess_quality"
    /\ UNCHANGED <<current_attempt, max_attempts, target_quality_score,
                   optimization_strategy, opt_runs, opt_completed, intVars,
                   ipVars, fnVars>>

(***************************************************************************)
(* assess_quality_and_decide and route_optimization                        *)
(***************************************************************************)
ValidScore(score) == IF score = 0 THEN FallbackScore ELSE score

\* variant: the score is compared with the default target instead of the target
TargetReached_defaultTarget(score, target) == score >= DefaultTarget

TargetReached(score, target) == score >= target

\* variant: the limit is tested with > instead of >=
AttemptsExhausted_strict(attempt, limit) == attempt > limit

AttemptsExhausted(attempt, limit) == attempt >= limit

\* variant: the bracket limits are tested with <= instead of <
ChooseStrategy_inclusive(score) ==
    IF score <= CriticalLimit THEN "critical_optimization"
    ELSE IF score <= StructureLimit THEN "structure_optimization"
    ELSE IF score <= StyleLimit THEN "style_optimization"
    ELSE "fine_tuning"

ChooseStrategy(score) ==
    IF score < CriticalLimit THEN "critical_optimization"
    ELSE IF score < StructureLimit THEN "structure_optimization"
    ELSE IF score < StyleLimit THEN "style_optimization"
    ELSE "fine_tuning"

route_optimization(completed, strategy) ==
    IF completed THEN "END"
    ELSE IF strategy = "critical_optimization" THEN "optimize_critical"
    ELSE IF strategy = "structure_optimization" THEN "optimize_structure"
    ELSE IF strategy = "style_optimization" THEN "optimize_style"
    ELSE IF strategy = "fine_tuning" THEN "optimize_fine_tuning"
    ELSE "END"

\* variant: the attempt limit is tested before the target
assess_quality_and_decide_limitFirst ==
    /\ stage = "run_quality_workflow"
    /\ node = "assess_quality"
    /\ LET score == ValidScore(current_quality_score)
       IN /\ current_quality_score' = score
          /\ IF AttemptsExhausted(current_attempt, max_attempts)
             THEN /\ success' = FALSE
                  /\ workflow_completed' = TRUE
                  /\ UNCHANGED optimization_strategy
             ELSE IF TargetReached(score, target_quality_score)
             THEN /\ success' = TRUE
                  /\ workflow_completed' = TRUE
                  /\ UNCHANGED optimization_strategy
             ELSE /\ optimization_strategy' = ChooseStrategy(score)
                  /\ UNCHANGED <<success, workflow_completed>>
    /\ final_result' = to_dict(final_result)
    /\ node' = route_optimization(workflow_completed', optimization_strategy')
    /\ UNCHANGED <<current_attempt, max_attempts, target_quality_score,
                   current_prompt, quality_history, error_message, opt_runs,
                   opt_completed, gen_failed, intVars, ipVars, fnVars>>

assess_quality_and_decide ==
    /\ stage = "run_quality_workflow"
    /\ node = "assess_quality"
    /\ LET score == ValidScore(current_quality_score)
       IN /\ current_quality_score' = score
          /\ IF TargetReached(score, target_quality_score)
             THEN /\ success' = TRUE
                  /\ workflow_completed' = TRUE
                  /\ UNCHANGED optimization_strategy
             ELSE IF AttemptsExhausted(current_attempt, max_attempts)
             THEN /\ success' = FALSE
                  /\ workflow_completed' = TRUE
                  /\ UNCHANGED optimization_strategy
             ELSE /\ optimization_strategy' = ChooseStrategy(score)
                  /\ UNCHANGED <<success, workflow_completed>>
    /\ final_result' = to_dict(final_result)
    /\ node' = route_optimization(workflow_completed', optimization_strategy')
    /\ UNCHANGED <<current_attempt, max_attempts, target_quality_score,
                   current_prompt, quality_history, error_message, opt_runs,
                   opt_completed, gen_failed, intVars, ipVars, fnVars>>

(***************************************************************************)
(* optimize_prompt_with_gpt4 and the four optimisation nodes               *)
(***************************************************************************)
\* api: "no_key" (OPENAI_API_KEY unset), "failed" (the API call raised),
\* "text" (GPT-4 answered), "blank" (GPT-4 answered with blanks only)
GptOutcomes == {"no_key", "failed", "text", "blank"}

\* variant: a failed API call loses the prompt
optimize_prompt_with_gpt4_losesPrompt(prompt, api) ==
    IF api = "no_key" THEN prompt
    ELSE IF api = "text" THEN "optimized"
    ELSE ""

optimize_prompt_with_gpt4(prompt, api) ==
    IF api = "no_key" THEN prompt
    ELSE IF api = "text" THEN "optimized"
    ELSE IF api = "blank" THEN ""
    ELSE prompt

\* variant: a completed optimisation counts twice
NextAttempt_twice(attempt) == attempt + 2

NextAttempt(attempt) == attempt + 1

OptimizeNode(name, strategy, failure) ==
    /\ stage = "run_quality_workflow"
    /\ node = name
    /\ \/ \E api \in GptOutcomes :
            /\ call' = [fn |-> "optimize_prompt_with_gpt4",
                        prompt |-> current_prompt, api |-> api]
            /\ ret' = [done |-> TRUE, raised |-> FALSE,
                       value |-> optimize_prompt_with_gpt4(current_prompt, api)]
            /\ current_prompt' = ret'.value
            /\ current_attempt' = NextAttempt(current_attempt)
            /\ optimization_strategy' = strategy
            /\ opt_completed' = Min(opt_completed + 1, OptRunsCap)
            /\ UNCHANGED error_message
       \/ \* except: the node's try block raised
          /\ error_message' = failure
          /\ UNCHANGED <<current_prompt, current_attempt, optimization_strategy,
                         opt_completed, fnVars>>
    /\ final_result' = to_dict(final_result)
    /\ opt_runs' = Min(opt_runs + 1, OptRunsCap)
    /\ node' = "reassess_quality"
    /\ UNCHANGED <<max_attempts, target_quality_score, current_quality_score,
                   quality_history, workflow_completed, success, gen_failed,
                   intVars, ipVars>>

optimize_prompt_critical ==
    OptimizeNode("optimize_critical", "critical_optimization",
                 "Critical optimization failed")

optimize_prompt_structure ==
    OptimizeNode("optimize_structure", "structure_optimization",
                 "Structure optimization failed")

optimize_prompt_style ==
    OptimizeNode("optimize_style", "style_optimization",
                 "Style optimization failed")

optimize_prompt_fine_tuning ==
    OptimizeNode("optimize_fine_tuning", "fine_tuning", "Fine tuning failed")

(***************************************************************************)
(* reassess_quality                                                        *)
(***************************************************************************)
StrategyBonus(strategy) ==
    IF strategy = "critical_optimization" THEN 5
    ELSE IF strategy = "structure_optimization" THEN 3
    ELSE IF strategy = "style_optimization" THEN 2
    ELSE IF strategy = "fine_tuning" THEN 1
    ELSE 0

\* the assessment is taken from final_result only if that still is an object
\* with a quality_assessment attribute; otherwise {'overall_score': 87}
ReassessScore(fr, strategy) ==
    LET base == IF fr.kind = "FinalizedPrompts" THEN fr.overall_score
                ELSE FallbackScore
    IN Min(MaxScore, base + StrategyBonus(strategy))

\* the value of the inner except branch (87 + 2)
ReassessExceptScore == FallbackScore + 2

PushHistory(history, entry) ==
    LET h == Append(history, entry)
    IN IF Len(h) > HistoryCap THEN Tail(h) ELSE h

reassess_quality ==
    /\ stage = "run_quality_workflow"
    /\ node = "reassess_quality"
    /\ \/ /\ current_quality_score' = ReassessScore(final_result, optimization_strategy)
          /\ quality_history' = PushHistory(quality_history, optimization_strategy)
          /\ UNCHANGED error_message
       \/ \* except: create_multi_prompt_system raised
          /\ error_message' = "Quality reassessment failed"
          /\ UNCHANGED <<current_quality_score, quality_history>>
    /\ final_result' = to_dict(final_result)
    /\ node' = "assess_quality"
    \* the optimisation node's call is over once the next node runs
    /\ call' = NoCall
    /\ ret' = NoRet
    /\ UNCHANGED <<current_attempt, max_attempts, target_quality_score,
                   current_prompt, optimization_strategy, workflow_completed,
                   success, opt_runs, opt_completed, gen_failed, intVars,
                   ipVars>>

(***************************************************************************)
(* run_quality_workflow: the result assembled once the graph reached END   *)
(***************************************************************************)
NoWorkflowResult ==
    [success |-> FALSE, workflow_completed |-> FALSE, final_quality_score |-> 0,
     attempts_used |-> 0, final_prompt |-> "None", error_message |-> "None",
     quality_history |-> <<>>, returned |-> FALSE]

run_quality_workflow ==
    /\ stage = "run_quality_workflow"
    /\ node = "END"
    /\ workflow_result' =
         [success |-> success,
          workflow_completed |-> workflow_completed,
          final_quality_score |-> current_quality_score,
          attempts_used |-> current_attempt,
          final_prompt |-> current_prompt,
          error_message |-> error_message,
          quality_history |-> quality_history,
          returned |-> TRUE]
    /\ stage' = "process_result"
    /\ UNCHANGED <<wfVars, generate_image, image_result, image_calls,
                   enhanced_result, ipVars, fnVars>>

(***************************************************************************)
(* LangGraphIntegration.run_enhanced_workflow                              *)
(***************************************************************************)
NoImageResult == [kind |-> "None", success |-> FALSE, image_path |-> "None"]

NoEnhancedResult ==
    [success |-> FALSE, workflow_success |-> "None", image_success |-> "None",
     image_path |-> "None", has_workflow_result |-> FALSE, returned |-> FALSE]

\* Python truthiness of a prompt value
Truthy(prompt) == prompt # "None" /\ prompt # ""

WorkflowFailed(wr) == ~ wr.success

\* variant: the generate_image flag is not consulted
WantsImage_ignoresFlag(flag, wr) == Truthy(wr.final_prompt)

WantsImage(flag, wr) == flag /\ Truthy(wr.final_prompt)

BoolStr(b) == IF b THEN "True" ELSE "False"

\* steps 1-2: the workflow result is examined; failure returns at once
process_workflow_result ==
    /\ stage = "process_result"
    /\ IF WorkflowFailed(workflow_result)
       THEN /\ enhanced_result' =
                 [success |-> FALSE, workflow_success |-> "None",
                  image_success |-> "None", image_path |-> "None",
                  has_workflow_result |-> TRUE, returned |-> TRUE]
            /\ stage' = "returned"
       ELSE /\ stage' = IF WantsImage(generate_image, workflow_result)
                        THEN "image_generation" ELSE "finalize"
            /\ UNCHANGED enhanced_result
    /\ UNCHANGED <<wfVars, generate_image, workflow_result, image_result,
                   image_calls, ipVars, fnVars>>

\* step 3: create_enhanced_creative_generator and generate_creative_from_prompt
ImageOutcomes == {"ok", "constructor_raises", "call_raises", "returns_failure"}

ImageResultOf(outcome) ==
    IF outcome = "ok"
    THEN [kind |-> "dict", success |-> TRUE, image_path |-> "path"]
    ELSE [kind |-> "dict", success |-> FALSE, image_path |-> "None"]

generate_image_step ==
    /\ stage = "image_generation"
    /\ \E outcome \in ImageOutcomes :
         image_result' =
           \* the metadata dict reads quality_history[-1] inside the try block
           IF workflow_result.quality_history = <<>>
           THEN ImageResultOf("call_raises")
           ELSE ImageResultOf(outcome)
    /\ image_calls' = image_calls + 1
    /\ stage' = "finalize"
    /\ UNCHANGED <<wfVars, generate_image, workflow_result, enhanced_result,
                   ipVars, fnVars>>

\* steps 4-6: the final dict; quality_history[-1] of an empty history raises
\* IndexError, which the outer except turns into a failure dict
\* variant: the overall success follows the image result
EnhancedResultOf_imageDecides(wr, ir) ==
    [success |-> ir.kind = "None" \/ ir.success,
     workflow_success |-> BoolStr(wr.success),
     image_success |-> IF ir.kind = "None" THEN "None" ELSE BoolStr(ir.success),
     image_path |-> IF ir.kind = "None" THEN "None" ELSE ir.image_path,
     has_workflow_result |-> TRUE, returned |-> TRUE]

EnhancedResultOf(wr, ir) ==
    [success |-> TRUE,
     workflow_success |-> BoolStr(wr.success),
     image_success |-> IF ir.kind = "None" THEN "None" ELSE BoolStr(ir.success),
     image_path |-> IF ir.kind = "None" THEN "None" ELSE ir.image_path,
     has_workflow_result |-> TRUE, returned |-> TRUE]

finalize_result ==
    /\ stage = "finalize"
    /\ enhanced_result' =
         IF workflow_result.quality_history = <<>>
         THEN [success |-> FALSE, workflow_success |-> "None",
               image_success |-> "None", image_path |-> "None",
               has_workflow_result |-> FALSE, returned |-> TRUE]
         ELSE EnhancedResultOf(workflow_result, image_result)
    /\ stage' = "returned"
    /\ UNCHANGED <<wfVars, generate_image, workflow_result, image_result,
                   image_calls, ipVars, fnVars>>

(***************************************************************************)
(* InputProcessor.process and InputProcessor._normalize_text               *)
(* A text is a sequence of character codes: Space is the blank, Dot the    *)
(* full stop, every other code a visible character.                        *)
(***************************************************************************)
Space == 0
Dot == -1

TextFields == {"headline", "subline", "company", "location", "stellentitel",
               "position_long", "cta", "motiv_prompt", "logo_placeholder"}

\* max_length passed to _normalize_text for each field
MaxLength(field) ==
    CASE field = "headline" -> 50
      [] field = "subline" -> 60
      [] field = "company" -> 30
      [] field = "location" -> 25
      [] field = "stellentitel" -> 50
      [] field = "position_long" -> 40
      [] field = "cta" -> 25
      [] field = "motiv_prompt" -> 200
      [] field = "logo_placeholder" -> 30

\* 'Jetzt bewerben!' : 15 characters, a blank at position 6
CtaDefault == [i \in 1..15 |-> IF i = 6 THEN Space ELSE 1000 + i]
\* '[FIRMENLOGO]' : 12 characters
LogoDefault == [i \in 1..12 |-> 2000 + i]

\* the default of streamlit_input.get(field, default)
DefaultText(field) ==
    IF field = "cta" THEN CtaDefault
    ELSE IF field = "logo_placeholder" THEN LogoDefault
    ELSE <<>>

Missing == [kind |-> "missing", text |-> <<>>]
NoneValue == [kind |-> "none", text |-> <<>>]
IntValue == [kind |-> "int", text |-> <<>>]
Str(text) == [kind |-> "str", text |-> text]

\* dict.get(field, default)
GetField(input, field) ==
    IF input[field].kind = "missing" THEN Str(DefaultText(field))
    ELSE input[field]

RECURSIVE LStrip(_)
LStrip(text) ==
    IF text # <<>> /\ Head(text) = Space THEN LStrip(Tail(text)) ELSE text

RECURSIVE RStrip(_)
RStrip(text) ==
    IF text # <<>> /\ text[Len(text)] = Space
    THEN RStrip(SubSeq(text, 1, Len(text) - 1)) ELSE text

Strip(text) == RStrip(LStrip(text))

Ellipsis == <<Dot, Dot, Dot>>

\* text[:max_length-3] + "..."
\* variant: the three dots are appended to max_length characters
Truncate_noRoom(text, max_length) == SubSeq(text, 1, max_length) \o Ellipsis

Truncate(text, max_length) == SubSeq(text, 1, max_length - 3) \o Ellipsis

_normalize_text(value, max_length) ==
    IF value.kind # "str" \/ value.text = <<>> THEN <<>>
    ELSE LET text == Strip(value.text)
         IN IF Len(text) > max_length THEN Truncate(text, max_length) ELSE text

(***************************************************************************)
(* InputProcessor._extract_ci_colors_from_streamlit / _extract_ci_colors   *)
(* A colour is a text of ASCII codes; a colour dict maps each of the five  *)
(* keys to a raw value (Missing when the key is absent).                   *)
(***************************************************************************)
Hash == 35

ColorKeys == {"primary", "secondary", "accent", "background", "text"}

\* default_colors: '#005EA5', '#B4D9F7', '#FFC20E', '#FFFFFF', '#000000'
DefaultColor(key) ==
    CASE key = "primary" -> <<Hash, 48, 48, 53, 69, 65, 53>>
      [] key = "secondary" -> <<Hash, 66, 52, 68, 57, 70, 55>>
      [] key = "accent" -> <<Hash, 70, 70, 67, 50, 48, 69>>
      [] key = "background" -> <<Hash, 70, 70, 70, 70, 70, 70>>
      [] key = "text" -> <<Hash, 48, 48, 48, 48, 48, 48>>

\* variant: the leading '#' is not tested
IsHexColor_noHash(value) ==
    /\ value.kind = "str"
    /\ Len(value.text) \in {4, 7}

\* isinstance(color, str) and color.startswith('#') and len(color) in [4, 7]
IsHexColor(value) ==
    /\ value.kind = "str"
    /\ value.text # <<>>
    /\ Head(value.text) = Hash
    /\ Len(value.text) \in {4, 7}

\* colors.get(key, default_value), validated
_extract_ci_colors(colors) ==
    [key \in ColorKeys |->
        LET color == IF colors[key].kind = "missing"
                     THEN Str(DefaultColor(key)) ELSE colors[key]
        IN IF IsHexColor(color) THEN color.text ELSE DefaultColor(key)]

EmptyColors == [key \in ColorKeys |-> Missing]
NoDict == [kind |-> "missing", colors |-> EmptyColors]
NotADict == [kind |-> "other", colors |-> EmptyColors]
Dict(colors) == [kind |-> "dict", colors |-> colors]

NoColors == [palette |-> NoDict, fields |-> EmptyColors, corporate |-> NoDict]

\* a value that streamlit_input.get(...) returns as something other than None
Supplied(value) == value.kind \notin {"missing", "none"}

\* a dict or other object that is truthy
TruthyColors(d) ==
    \/ d.kind = "other"
    \/ d.kind = "dict" /\ \E key \in ColorKeys : d.colors[key].kind # "missing"

\* which entry of streamlit_input the colours are taken from; "raise" when a
\* truthy corporate_colors has no get method
ColorSource(input) ==
    IF input.palette.kind = "dict" THEN "palette"
    ELSE IF \E key \in ColorKeys : Supplied(input.fields[key]) THEN "fields"
    ELSE IF TruthyColors(input.corporate)
         THEN IF input.corporate.kind = "dict" THEN "corporate" ELSE "raise"
    ELSE "default"

_extract_ci_colors_from_streamlit(input) ==
    LET source == ColorSource(input)
    IN IF source = "palette" THEN _extract_ci_colors(input.palette.colors)
       ELSE IF source = "fields"
       THEN _extract_ci_colors(
                [key \in ColorKeys |->
                    IF Supplied(input.fields[key]) THEN input.fields[key]
                    ELSE Missing])
       ELSE IF source = "corporate"
       THEN _extract_ci_colors(input.corporate.colors)
       ELSE _extract_ci_colors(EmptyColors)

NoStructured ==
    [done |-> FALSE, raised |-> FALSE,
     text |-> [f \in TextFields |-> <<>>],
     ci_colors |-> [key \in ColorKeys |-> <<>>]]
NoInput == [f \in TextFields |-> Missing]

InputProcessor_process ==
    /\ ~ structured.done
    /\ ~ structured.raised
    /\ structured' =
         IF ColorSource(raw_colors) = "raise"
         THEN [NoStructured EXCEPT !.raised = TRUE]
         ELSE [done |-> TRUE, raised |-> FALSE,
               text |-> [f \in TextFields |->
                           _normalize_text(GetField(raw_input, f), MaxLength(f))],
               ci_colors |-> _extract_ci_colors_from_streamlit(raw_colors)]
    /\ UNCHANGED <<raw_input, raw_colors, wfVars, intVars, fnVars>>

\* supplied colour values: with or without '#', of every length up to MaxColorLen
ColorValues ==
    {Missing, NoneValue, IntValue} \cup
    {Str([i \in 1..n |-> IF hash /\ i = 1 THEN Hash ELSE 96 + i]) :
        hash \in BOOLEAN, n \in 0..MaxColorLen}
\* a dict with one key under test; the other keys absent or a valid '#bbb'
ColorDicts ==
    {[key \in ColorKeys |-> IF key = focus THEN value
                            ELSE IF filled THEN Str(<<Hash, 98, 98, 98>>) ELSE Missing] :
        focus \in ColorKeys, value \in ColorValues, filled \in BOOLEAN}
SimpleDicts ==
    {NoDict, NotADict, Dict(EmptyColors),
     Dict([key \in ColorKeys |-> Str(<<Hash, 99, 99, 99, 99, 99, 99>>)])}
SimpleFields ==
    {EmptyColors, [key \in ColorKeys |-> Str(<<Hash, 100, 100, 100>>)]}
RawColors ==
    {[palette |-> Dict(d), fields |-> f, corporate |-> c] :
        d \in ColorDicts, f \in SimpleFields, c \in SimpleDicts}
    \cup
    {[palette |-> p, fields |-> d, corporate |-> c] :
        p \in SimpleDicts, d \in ColorDicts, c \in SimpleDicts}
    \cup
    {[palette |-> p, fields |-> f, corporate |-> Dict(d)] :
        p \in SimpleDicts, f \in SimpleFields, d \in ColorDicts}

\* raw values of a field whose cap is max_length
Pad(k) == [i \in 1..k |-> Space]
Body(n) == [i \in 1..n |-> IF i % 7 = 0 THEN Space ELSE i]
RawLengths(max_length) ==
    {0, 1, max_length - 1, max_length, max_length + 1, max_length + MaxOver}
RawValues(max_length) ==
    {Missing, NoneValue, IntValue} \cup
    {Str(Pad(lead) \o Body(n) \o Pad(trail)) :
        lead \in 0..MaxPad, trail \in 0..MaxPad, n \in RawLengths(max_length)}
BaseKinds == {"missing", "full", "over"}
BaseValue(kind, max_length) ==
    IF kind = "missing" THEN Missing
    ELSE IF kind = "full" THEN Str(Body(max_length))
    ELSE Str(Body(max_length + 1))

(***************************************************************************)
(* The quality workflow run through run_enhanced_workflow                  *)
(***************************************************************************)
InitWorkflow ==
    /\ node = "generate_initial"
    /\ current_attempt = 1
    /\ max_attempts \in MaxAttemptsSet
    /\ target_quality_score \in TargetScores
    /\ current_quality_score = 0
    /\ current_prompt = "None"
    /\ optimization_strategy = "initial"
    /\ final_result = NoResult
    /\ quality_history = <<>>
    /\ workflow_completed = FALSE
    /\ success = FALSE
    /\ error_message = "None"
    /\ opt_runs = 0
    /\ opt_completed = 0
    /\ gen_failed = FALSE
    /\ stage = "run_quality_workflow"
    /\ generate_image \in BOOLEAN
    /\ workflow_result = NoWorkflowResult
    /\ image_result = NoImageResult
    /\ image_calls = 0
    /\ enhanced_result = NoEnhancedResult

\* no InputProcessor run under way
IdleInput ==
    /\ raw_input = NoInput
    /\ raw_colors = NoColors
    /\ structured = NoStructured

Init ==
    /\ InitWorkflow
    /\ IdleInput
    /\ call = NoCall
    /\ ret = NoRet

Next ==
    \/ generate_initial_prompt
    \/ assess_quality_and_decide
    \/ optimize_prompt_critical
    \/ optimize_prompt_structure
    \/ optimize_prompt_style
    \/ optimize_prompt_fine_tuning
    \/ reassess_quality
    \/ run_quality_workflow
    \/ process_workflow_result
    \/ generate_image_step
    \/ finalize_result

Spec == Init /\ [][Next]_vars

(***************************************************************************)
(* InputProcessor.process applied to one raw streamlit_input               *)
(***************************************************************************)
\* the workflow at rest, with the default arguments
IdleWorkflow ==
    /\ InitWorkflow
    /\ max_attempts = DefaultMaxAttempts
    /\ target_quality_score = DefaultTarget
    /\ generate_image = TRUE

InitInput ==
    /\ IdleWorkflow
    /\ call = NoCall
    /\ ret = NoRet
    /\ \E focus \in TextFields, kind \in BaseKinds :
         \E value \in RawValues(MaxLength(focus)) :
           raw_input = [f \in TextFields |->
                          IF f = focus THEN value
                          ELSE BaseValue(kind, MaxLength(f))]
    /\ raw_colors = NoColors
    /\ structured = NoStructured

NextInput == InputProcessor_process

SpecInput == InitInput /\ [][NextInput]_vars

(***************************************************************************)
(* InputProcessor.process applied to the colour entries of streamlit_input *)
(***************************************************************************)
InitColors ==
    /\ IdleWorkflow
    /\ call = NoCall
    /\ ret = NoRet
    /\ raw_input = NoInput
    /\ raw_colors \in RawColors
    /\ structured = NoStructured

SpecColors == InitColors /\ [][NextInput]_vars

(***************************************************************************)
(* LayoutIntegrator._apply_adaptive_rules                                  *)
(* A trigger is a text of ASCII codes such as 'length > 50': '>' is 62,     *)
(* ' ' is 32 and '0' is 48.                                                *)
(***************************************************************************)
RECURSIVE Digits(_)
\* the decimal digits of a natural number
Digits(n) ==
    IF n < 10 THEN <<48 + n>> ELSE Digits(n \div 10) \o <<48 + (n % 10)>>

\* index of the first '> ' in text at or after position from, 0 if none
RECURSIVE FindSep(_, _)
FindSep(text, from) ==
    IF from + 1 > Len(text) THEN 0
    ELSE IF text[from] = 62 /\ text[from + 1] = 32 THEN from
    ELSE FindSep(text, from + 1)

\* text.split('> ')[1]; <<"raise">> stands for IndexError
SplitSecond(text) ==
    LET first == FindSep(text, 1)
    IN IF first = 0 THEN [ok |-> FALSE, text |-> <<>>]
       ELSE LET second == FindSep(text, first + 2)
            IN [ok |-> TRUE,
                text |-> IF second = 0 THEN SubSeq(text, first + 2, Len(text))
                         ELSE SubSeq(text, first + 2, second - 1)]

RECURSIVE DigitsValue(_)
DigitsValue(digits) ==
    IF digits = <<>> THEN 0
    ELSE 10 * DigitsValue(SubSeq(digits, 1, Len(digits) - 1))
         + (digits[Len(digits)] - 48)

RECURSIVE TrimBlanks(_)
TrimBlanks(text) ==
    IF text # <<>> /\ Head(text) = 32 THEN TrimBlanks(Tail(text))
    ELSE IF text # <<>> /\ text[Len(text)] = 32
    THEN TrimBlanks(SubSeq(text, 1, Len(text) - 1))
    ELSE text

\* int(text): digits with blanks around them; anything else is ValueError
ParseInt(text) ==
    LET digits == TrimBlanks(text)
    IN IF digits # <<>> /\ \A i \in 1..Len(digits) :
                              digits[i] >= 48 /\ digits[i] <= 48 + 9
       THEN [ok |-> TRUE, value |-> DigitsValue(digits)]
       ELSE [ok |-> FALSE, value |-> 0]

\* 'length ' and 'count ', the words of the default triggers 'length > 50'
\* and 'count > 5' of rule.get('trigger', ...)
LengthWord == <<108, 101, 110, 103, 116, 104, 32>>
CountWord == <<99, 111, 117, 110, 116, 32>>

\* int(rule.get('trigger', default).split('> ')[1])
TriggerThreshold(rule, default) ==
    LET text == IF rule.trigger.kind = "missing" THEN default
                ELSE rule.trigger.text
        piece == SplitSecond(text)
    IN IF piece.ok THEN ParseInt(piece.text) ELSE [ok |-> FALSE, value |-> 0]

\* variant: the threshold itself already triggers
Exceeds_inclusive(amount, threshold) == amount >= threshold

Exceeds(amount, threshold) == amount > threshold

_apply_adaptive_rules(layout_def, headline_len, n_benefits) ==
    LET lh == layout_def.long_headline
        mb == layout_def.many_benefits
        lt == TriggerThreshold(lh, LengthWord \o <<62, 32>> \o Digits(50))
        mt == TriggerThreshold(mb, CountWord \o <<62, 32>> \o Digits(5))
    IN IF (lh.defined /\ ~ lt.ok) \/ (mb.defined /\ ~ mt.ok)
       THEN [done |-> FALSE, raised |-> TRUE, value |-> <<>>]
       ELSE [done |-> TRUE, raised |-> FALSE,
             value |->
               (IF lh.defined /\ Exceeds(headline_len, lt.value)
                THEN <<"long_headline">> ELSE <<>>)
               \o
               (IF mb.defined /\ Exceeds(n_benefits, mt.value)
                THEN <<"many_benefits">> ELSE <<>>)]

apply_adaptive_rules_call ==
    /\ call.fn = "_apply_adaptive_rules"
    /\ ~ ret.done
    /\ ~ ret.raised
    /\ ret' = _apply_adaptive_rules(call.layout_def, call.headline_len,
                                    call.n_benefits)
    /\ UNCHANGED <<call, wfVars, intVars, ipVars>>

\* the rules a layout can define: absent, without trigger, with a trigger
\* 'word > N', or with a trigger that does not have that form
Rules(word, default, thresholds) ==
    {[defined |-> FALSE, trigger |-> Missing, threshold |-> 0],
     [defined |-> TRUE, trigger |-> Missing, threshold |-> default]}
    \cup {[defined |-> TRUE,
           trigger |-> Str(word \o <<62, 32>> \o Digits(n)),
           threshold |-> n] : n \in thresholds}
    \cup {[defined |-> TRUE,
           trigger |-> Str(word \o <<62, 61, 32>> \o Digits(default)),
           threshold |-> default],
          [defined |-> TRUE,
           trigger |-> Str(word \o <<62, 32>> \o Digits(default) \o <<32, 120>>),
           threshold |-> default]}

InitAdaptive ==
    /\ IdleWorkflow
    /\ IdleInput
    /\ \E lh \in Rules(LengthWord, 50, {0, 9, 10, MaxHeadlineLen - 1, MaxHeadlineLen, 125}),
          mb \in Rules(CountWord, 5, {0, 3, MaxBenefits, 12}),
          h \in 0..MaxHeadlineLen, b \in 0..MaxBenefits :
         call = [fn |-> "_apply_adaptive_rules",
                 layout_def |-> [long_headline |-> lh, many_benefits |-> mb],
                 headline_len |-> h, n_benefits |-> b]
    /\ ret = NoRet

SpecAdaptive == InitAdaptive /\ [][apply_adaptive_rules_call]_vars

(***************************************************************************)
(* PromptFinalizer._generate_dalle_prompt                                  *)
(* The prompt is the sequence of its sections; a section is the line the   *)
(* code appends, named by its fixed wording, with the texts it embeds.     *)
(***************************************************************************)
ElementOrder ==
    <<"headline", "subline", "company", "stellentitel", "logo", "position",
      "benefits", "cta">>

SectionOf(tag, element, content) ==
    [tag |-> tag, element |-> element, content |-> content]

RECURSIVE ItemSections(_, _)
ItemSections(element, items) ==
    IF items = <<>> THEN <<>>
    ELSE <<SectionOf("als gut lesbare Schrift", element, <<Head(items)>>)>>
         \o ItemSections(element, Tail(items))

\* the lines appended for one element of element_order
ElementSections(element, placement, enable_text_rendering) ==
    IF placement.kind = "missing" \/ placement.content = <<>> THEN <<>>
    ELSE IF enable_text_rendering
    THEN IF placement.kind = "list"
         THEN <<SectionOf("Text in Zone: LESBARE SCHRIFT", element, <<>>)>>
              \o ItemSections(element, placement.content)
         ELSE <<SectionOf("Text in Zone: als lesbare Schrift", element,
                          placement.content)>>
    ELSE IF placement.kind = "list"
         THEN <<SectionOf("BEREICH in Zone: TEXT-ZONE", element, <<>>),
                SectionOf("Inhalt: Bullet-Points, Text", element,
                          SubSeq(placement.content, 1,
                                 Min(3, Len(placement.content)))),
                SectionOf("Stil: gut lesbare Schrift", element, <<>>),
                SectionOf("Text wird direkt im Bild gerendert", element, <<>>)>>
         ELSE <<SectionOf("BEREICH in Zone: TEXT-ZONE", element, <<>>),
                SectionOf("Inhalt", element, placement.content),
                SectionOf("Stil: gut lesbare Schrift", element, <<>>),
                SectionOf("Text wird direkt im Bild gerendert", element, <<>>)>>

RECURSIVE PlacementSections(_, _, _)
\* for element_name in element_order, from the i-th on
PlacementSections(i, text_placements, enable_text_rendering) ==
    IF i > Len(ElementOrder) THEN <<>>
    ELSE ElementSections(ElementOrder[i], text_placements[ElementOrder[i]],
                         enable_text_rendering)
         \o PlacementSections(i + 1, text_placements, enable_text_rendering)

TextBlock(layout_data, enable_text_rendering) ==
    \* if text_placements: the dict has at least one key
    IF \A e \in DOMAIN layout_data.text_placements :
          layout_data.text_placements[e].kind = "missing"
    THEN <<>>
    ELSE (IF enable_text_rendering
          THEN <<SectionOf("TEXT-CONTENT RENDERING", "None", <<>>),
                 SectionOf("TEXT-RENDERING AKTIVIERT", "None", <<>>),
                 SectionOf("WARNUNG: Deutsche Umlaute", "None", <<>>),
                 SectionOf("ANWEISUNG: lesbare Schriftarten", "None", <<>>)>>
          ELSE <<SectionOf("TEXT-LAYOUT-BEREICHE", "None", <<>>),
                 SectionOf("LAYOUT-ANWEISUNG: sichtbare Farbflaechen", "None", <<>>),
                 SectionOf("KRITISCH: abgegrenzte Layout-Zonen", "None", <<>>),
                 SectionOf("Bereiche als zusammenhaengende Flaechen", "None", <<>>)>>)
         \o PlacementSections(1, layout_data.text_placements,
                              enable_text_rendering)
         \o (IF layout_data.location = <<>> THEN <<>>
             ELSE IF enable_text_rendering
             THEN <<SectionOf("STANDORT-BEREICH: TEXT-ZONE", "None", <<>>),
                    SectionOf("Inhalt", "location", layout_data.location),
                    SectionOf("Stil: gut lesbare Schrift", "None", <<>>)>>
             ELSE <<SectionOf("STANDORT-BEREICH: TEXT-ZONE", "None", <<>>),
                    SectionOf("Standort-Pin-Symbol", "None", <<>>),
                    SectionOf("Akzentfarbe fuer Standort-Bereich", "None", <<>>),
                    SectionOf("Text wird direkt im Bild gerendert", "None", <<>>)>>)
         \o (IF layout_data.cta = <<>> THEN <<>>
             ELSE IF enable_text_rendering
             THEN <<SectionOf("CTA-BUTTON: TEXT-ZONE", "None", <<>>),
                    SectionOf("Inhalt", "cta", layout_data.cta),
                    SectionOf("Stil: gut lesbare Schrift", "None", <<>>)>>
             ELSE <<SectionOf("CTA-BUTTON: TEXT-ZONE", "None", <<>>),
                    SectionOf("Button-Stil mit abgerundeten Ecken", "None", <<>>),
                    SectionOf("Text wird direkt im Bild gerendert", "None", <<>>)>>)
         \o (IF enable_text_rendering
             THEN <<SectionOf("TEXT-UMSETZUNG: als lesbare Schrift rendern", "None", <<>>)>>
             ELSE <<SectionOf("TEXT-UMSETZUNG: direkt im Bild gerendert", "None", <<>>)>>)

_generate_dalle_prompt(layout_data, enable_text_rendering) ==
    <<SectionOf("CANVAS STRUCTURE", "None", <<>>)>>
    \o TextBlock(layout_data, enable_text_rendering)
    \o <<SectionOf("MOTIV BESCHREIBUNG", "None", <<>>)>>
    \o (IF layout_data.company # <<>> /\ layout_data.location # <<>>
        THEN <<SectionOf("Arbeitsplatz", "structured",
                         layout_data.company \o layout_data.location)>>
        ELSE <<>>)
    \o <<SectionOf("QUALITAETS-ANFORDERUNGEN", "None", <<>>), SectionOf("NEGATIVE PROMPTS", "None", <<>>)>>
    \o (IF ~ enable_text_rendering
        THEN <<SectionOf("Alle Texte werden direkt im Bild gerendert", "None", <<>>),
               SectionOf("Professionelle, gut lesbare Schrift verwenden", "None", <<>>)>>
        ELSE <<SectionOf("Text soll klar und lesbar sein", "None", <<>>),
               SectionOf("Alle Texte werden mit lesbarer Schrift gerendert", "None", <<>>)>>)

generate_dalle_prompt_call ==
    /\ call.fn = "_generate_dalle_prompt"
    /\ ~ ret.done
    /\ ~ ret.raised
    /\ ret' = [done |-> TRUE, raised |-> FALSE,
               value |-> _generate_dalle_prompt(call.layout_data,
                                                call.enable_text_rendering)]
    /\ UNCHANGED <<call, wfVars, intVars, ipVars>>

\* the placements an element can have: none, a string ('' or a text), or for
\* the benefits a list of items
Placements(element) ==
    {[kind |-> "missing", content |-> <<>>]} \cup
    (IF element = "benefits"
     THEN {[kind |-> "list",
            content |-> [i \in 1..n |-> "benefit " \o ToString(i)]] :
              n \in 0..MaxBenefitItems}
     ELSE IF element \in {"logo", "position"}
     THEN {[kind |-> "str", content |-> <<element \o " text">>]}
     ELSE {[kind |-> "str", content |-> t] :
              t \in {<<>>, <<element \o " text">>}})

InitDalle ==
    /\ IdleWorkflow
    /\ IdleInput
    /\ \E tp \in [headline : Placements("headline"),
                   subline : Placements("subline"),
                   company : Placements("company"),
                   stellentitel : Placements("stellentitel"),
                   logo : Placements("logo"),
                   position : Placements("position"),
                   benefits : Placements("benefits"),
                   cta : Placements("cta")],
          c \in {<<>>, <<"company text">>},
          l \in {<<>>, <<"location text">>},
          b \in {<<>>, <<"cta text">>},
          flag \in BOOLEAN :
         call = [fn |-> "_generate_dalle_prompt",
                 layout_data |-> [text_placements |-> tp, company |-> c,
                                  location |-> l, cta |-> b],
                 enable_text_rendering |-> flag]
    /\ ret = NoRet

SpecDalle == InitDalle /\ [][generate_dalle_prompt_call]_vars

(***************************************************************************)
(* PromptFinalizer.process (the cinematic part) and                        *)
(* generate_creative_from_multiprompt_result                               *)
(* A prompt is a sequence of characters; only its length and identity      *)
(* matter here.                                                            *)
(***************************************************************************)
Prompts == UNION {[1..n -> {1, 2}] : n \in 0..MaxPromptLen}

NoCinematic == [kind |-> "None", full_prompt |-> <<>>, error |-> FALSE]
\* the except branch: CinematicPromptData(..., full_prompt="", metadata={'error': ...})
FallbackCinematic ==
    [kind |-> "CinematicPromptData", full_prompt |-> <<>>, error |-> TRUE]

\* outcome is "raises" or the full_prompt the transformer built
_generate_cinematic_prompt(outcome) ==
    IF outcome.raises THEN FallbackCinematic
    ELSE [kind |-> "CinematicPromptData", full_prompt |-> outcome.full_prompt,
          error |-> FALSE]

FinalizedPrompts(dalle_prompt, cinematic_prompt) ==
    [dalle_prompt |-> dalle_prompt, cinematic_prompt |-> cinematic_prompt]

PromptFinalizer_process ==
    /\ call.fn = "PromptFinalizer.process"
    /\ ~ ret.done
    /\ ~ ret.raised
    /\ ret' = [done |-> TRUE, raised |-> FALSE,
               value |-> FinalizedPrompts(call.dalle_prompt,
                             _generate_cinematic_prompt(call.cinematic))]
    /\ UNCHANGED <<call, wfVars, intVars, ipVars>>

\* bool(obj) of a dataclass instance without __bool__/__len__: only None is falsy
TruthyObject(obj) == obj.kind # "None"

\* the prompt and prompt type handed to generate_creative_from_prompt
PromptToUse(multiprompt_result) ==
    IF TruthyObject(multiprompt_result.cinematic_prompt)
    THEN [prompt |-> multiprompt_result.cinematic_prompt.full_prompt,
          prompt_type |-> "cinematic"]
    ELSE [prompt |-> multiprompt_result.dalle_prompt, prompt_type |-> "dalle"]

generate_creative_from_multiprompt_result(multiprompt_result, has_api_key) ==
    LET use == PromptToUse(multiprompt_result)
    IN IF ~ has_api_key
       THEN [done |-> FALSE, raised |-> TRUE, value |-> use]
       ELSE IF use.prompt_type = "cinematic"
               /\ Len(multiprompt_result.dalle_prompt) = 0
       THEN [done |-> FALSE, raised |-> TRUE, value |-> use]
       ELSE [done |-> TRUE, raised |-> FALSE, value |-> use]

\* the caller passes on what PromptFinalizer.process returned
generate_creative_call ==
    /\ call.fn = "PromptFinalizer.process"
    /\ ret.done
    /\ \E has_api_key \in BOOLEAN :
         /\ call' = [fn |-> "generate_creative_from_multiprompt_result",
                     multiprompt_result |-> ret.value]
         /\ ret' = generate_creative_from_multiprompt_result(ret.value,
                                                             has_api_key)
    /\ UNCHANGED <<wfVars, intVars, ipVars>>

\* a FinalizedPrompts built without the cinematic_prompt argument
generate_creative_call_default ==
    /\ call.fn = "FinalizedPrompts"
    /\ \E has_api_key \in BOOLEAN :
         /\ call' = [fn |-> "generate_creative_from_multiprompt_result",
                     multiprompt_result |->
                         FinalizedPrompts(call.dalle_prompt, NoCinematic)]
         /\ ret' = generate_creative_from_multiprompt_result(
                       FinalizedPrompts(call.dalle_prompt, NoCinematic),
                       has_api_key)
    /\ UNCHANGED <<wfVars, intVars, ipVars>>

InitCreative ==
    /\ IdleWorkflow
    /\ IdleInput
    /\ \E d \in Prompts :
         \/ \E c \in {[raises |-> TRUE, full_prompt |-> <<>>]}
                    \cup {[raises |-> FALSE, full_prompt |-> p] :
                             p \in Prompts} :
              call = [fn |-> "PromptFinalizer.process", dalle_prompt |-> d,
                      cinematic |-> c]
         \/ call = [fn |-> "FinalizedPrompts", dalle_prompt |-> d]
    /\ ret = NoRet

NextCreative ==
    \/ PromptFinalizer_process
    \/ generate_creative_call
    \/ generate_creative_call_default

SpecCreative == InitCreative /\ [][NextCreative]_vars

(***************************************************************************)
(* auto_optimize_prompt_quality: one step per validation / loop iteration  *)
(***************************************************************************)
\* validate_prompt_score: 75 without the module, else the validator's score
\* (0 when validation raised)
ValidateScores(available) ==
    IF available THEN {0, 70, 75, 84, 85, 86, 100} ELSE {75}

\* variant: one retry more than max_retries
LoopCondition_oneMore(current_score, retries_used, min_score, max_retries) ==
    current_score < min_score /\ retries_used <= max_retries

\* while current_score < min_score and retries_used < max_retries
LoopCondition(current_score, retries_used, min_score, max_retries) ==
    current_score < min_score /\ retries_used < max_retries

auto_optimize_start ==
    /\ call.fn = "auto_optimize_prompt_quality"
    /\ ret = NoRet
    /\ \E score \in ValidateScores(call.available) :
         ret' = [done |-> FALSE, raised |-> FALSE, pc |-> "while",
                 initial_score |-> score, current_score |-> score,
                 retries_used |-> 0, optimization_history |-> <<>>,
                 revisions |-> 0, optimization_successful |-> FALSE]
    /\ UNCHANGED <<call, wfVars, intVars, ipVars>>

\* one pass through the loop body; revisions counts the calls of
\* revise_prompt_with_feedback
auto_optimize_revise ==
    /\ call.fn = "auto_optimize_prompt_quality"
    /\ ret # NoRet
    /\ ret.pc = "while"
    /\ LoopCondition(ret.current_score, ret.retries_used, call.min_score,
                     call.max_retries)
    /\ \/ \* revise_prompt_with_feedback is undefined or raises
          ret' = [ret EXCEPT !.pc = "raised", !.raised = TRUE,
                             !.revisions = @ + 1]
       \/ /\ call.available
          /\ \E new_score \in ValidateScores(TRUE) :
               ret' = [ret EXCEPT
                         !.optimization_history =
                             Append(@, [retry_number |-> ret.retries_used + 1,
                                        score_before |-> ret.current_score,
                                        score_after |-> new_score]),
                         !.current_score = new_score,
                         !.retries_used = @ + 1,
                         !.revisions = @ + 1]
    /\ UNCHANGED <<call, wfVars, intVars, ipVars>>

auto_optimize_return ==
    /\ call.fn = "auto_optimize_prompt_quality"
    /\ ret # NoRet
    /\ ret.pc = "while"
    /\ ~ LoopCondition(ret.current_score, ret.retries_used, call.min_score,
                       call.max_retries)
    /\ \/ ret' = [ret EXCEPT
                    !.pc = "returned", !.done = TRUE,
                    !.optimization_successful =
                        (ret.current_score >= call.min_score)]
       \/ \* writing the optimization log raised
          ret' = [ret EXCEPT
                    !.pc = "raised", !.raised = TRUE,
                    !.optimization_successful =
                        (ret.current_score >= call.min_score)]
    /\ UNCHANGED <<call, wfVars, intVars, ipVars>>

InitAutoOptimize ==
    /\ IdleWorkflow
    /\ IdleInput
    /\ \E min_score \in {70, 85, 90}, max_retries \in 0..MaxRetries,
          available \in BOOLEAN :
         call = [fn |-> "auto_optimize_prompt_quality",
                 min_score |-> min_score, max_retries |-> max_retries,
                 available |-> available]
    /\ ret = NoRet

NextAutoOptimize ==
    \/ auto_optimize_start
    \/ auto_optimize_revise
    \/ auto_optimize_return

SpecAutoOptimize == InitAutoOptimize /\ [][NextAutoOptimize]_vars

(***************************************************************************)
(* EnhancedCreativeGenerator._optimize_prompt: the length control          *)
(* A text is the non-empty sequence of its lines (text.split('\n')); a     *)
(* line is known by its length, whether it holds a priority keyword,       *)
(* whether it is blank, and which of the lines of that shape it is.        *)
(***************************************************************************)
PromptMaxLength == 4000

RECURSIVE SumLen(_)
SumLen(lines) == IF lines = <<>> THEN 0 ELSE Head(lines).len + SumLen(Tail(lines))

\* len('\n'.join(lines))
JoinedLen(lines) == IF lines = <<>> THEN 0 ELSE SumLen(lines) + Len(lines) - 1

PriorityFits(current_length, section) ==
    current_length + section.len + 1 < PromptMaxLength - 200

\* variant: the second pass keeps every remaining line
RestFits_keepsAll(current_length, section) == TRUE

RestFits(current_length, section) ==
    current_length + section.len + 1 < PromptMaxLength - 50

RECURSIVE PriorityPass(_, _, _)
\* first loop: the lines with a priority keyword, as far as they fit
PriorityPass(sections, kept_sections, current_length) ==
    IF sections = <<>>
    THEN [kept_sections |-> kept_sections, current_length |-> current_length]
    ELSE IF Head(sections).priority /\ PriorityFits(current_length, Head(sections))
    THEN PriorityPass(Tail(sections), Append(kept_sections, Head(sections)),
                      current_length + Head(sections).len + 1)
    ELSE PriorityPass(Tail(sections), kept_sections, current_length)

RECURSIVE RestPass(_, _, _)
\* second loop: the other non-blank lines, until one does not fit
RestPass(sections, kept_sections, current_length) ==
    IF sections = <<>> THEN kept_sections
    ELSE IF /\ \A i \in 1..Len(kept_sections) :
                  kept_sections[i] # Head(sections)
            /\ ~ Head(sections).blank
    THEN IF RestFits(current_length, Head(sections))
         THEN RestPass(Tail(sections), Append(kept_sections, Head(sections)),
                       current_length + Head(sections).len + 1)
         ELSE kept_sections
    ELSE RestPass(Tail(sections), kept_sections, current_length)

\* optimized is what optimize_prompt_with_gpt4 returned (or the prompt itself)
_optimize_prompt(optimized) ==
    IF JoinedLen(optimized) <= PromptMaxLength THEN optimized
    ELSE LET first == PriorityPass(optimized, <<>>, 0)
         IN RestPass(optimized, first.kept_sections, first.current_length)

optimize_prompt_call ==
    /\ call.fn = "EnhancedCreativeGenerator._optimize_prompt"
    /\ ~ ret.done
    /\ ret' = [done |-> TRUE, raised |-> FALSE,
               value |-> _optimize_prompt(call.optimized)]
    /\ UNCHANGED <<call, wfVars, intVars, ipVars>>

Lines ==
    {[len |-> n, priority |-> p, blank |-> FALSE, variant |-> v] :
        n \in {1, 148, 1900, 3798, 3949, 4001}, p \in BOOLEAN, v \in 1..2}
    \cup {[len |-> n, priority |-> FALSE, blank |-> TRUE, variant |-> 1] :
            n \in {0, 1}}

InitOptimizePrompt ==
    /\ IdleWorkflow
    /\ IdleInput
    /\ \E text \in UNION {[1..n -> Lines] : n \in 1..MaxLines} :
         call = [fn |-> "EnhancedCreativeGenerator._optimize_prompt",
                 optimized |-> text]
    /\ ret = NoRet

SpecOptimizePrompt == InitOptimizePrompt /\ [][optimize_prompt_call]_vars

(***************************************************************************)
(* GPT5ImageGenerator._optimize_prompt                                     *)
(* The base prompt is a sequence of chunks: plain text of some length, or  *)
(* one of the Midjourney flags that the function removes.                  *)
(***************************************************************************)
Gpt5MaxLength == 1000

\* len(style_template["prompt_addition"]) of the five style templates
StyleAdditionLen(style) ==
    CASE style = "realistisch" -> 38
      [] style = "kuenstlerisch" -> 50
      [] style = "fotografisch" -> 57
      [] style = "illustrativ" -> 47
      [] style = "cinematisch" -> 53

\* len(quality_config["detail"])
QualityDetailLen(quality) ==
    CASE quality = "standard" -> 15
      [] quality = "hoch" -> 11
      [] quality = "sehr_hoch" -> 17

RECURSIVE CleanLen(_)
\* len(base_prompt.replace("--ar", "")...): the flags are gone
CleanLen(chunks) ==
    IF chunks = <<>> THEN 0
    ELSE (IF Head(chunks).kind = "flag" THEN 0 ELSE Head(chunks).len)
         + CleanLen(Tail(chunks))

\* the returned prompt: the characters kept of
\* f"{clean_prompt}, {style_addition}, {quality_addition}" and the length of
\* the suffix '...' put behind them
GPT5_optimize_prompt(chunks, style, quality) ==
    LET n == CleanLen(chunks) + 2 + StyleAdditionLen(style) + 2
             + QualityDetailLen(quality)
    IN IF n > Gpt5MaxLength
       THEN [kept |-> Gpt5MaxLength, suffix |-> 3]
       ELSE [kept |-> n, suffix |-> 0]

gpt5_optimize_prompt_call ==
    /\ call.fn = "GPT5ImageGenerator._optimize_prompt"
    /\ ~ ret.done
    /\ ret' = [done |-> TRUE, raised |-> FALSE,
               value |-> GPT5_optimize_prompt(call.base_prompt, call.style,
                                              call.quality)]
    /\ UNCHANGED <<call, wfVars, intVars, ipVars>>

\* plain text of some length and the flags '--q', '--ar' / '--no', '--style'
BasePrompts ==
    UNION {[1..n ->
              {[kind |-> "text", len |-> k] :
                  k \in {1, 10, 900, 932, 933, 943, 944, 2000}}
              \cup {[kind |-> "flag", len |-> k] : k \in {3, 4, 7}}] :
           n \in 0..MaxChunks}

InitGpt5 ==
    /\ IdleWorkflow
    /\ IdleInput
    /\ \E base_prompt \in BasePrompts,
          style \in {"realistisch", "kuenstlerisch", "fotografisch",
                     "illustrativ", "cinematisch"},
          quality \in {"standard", "hoch", "sehr_hoch"} :
         call = [fn |-> "GPT5ImageGenerator._optimize_prompt",
                 base_prompt |-> base_prompt, style |-> style,
                 quality |-> quality]
    /\ ret = NoRet

SpecGpt5 == InitGpt5 /\ [][gpt5_optimize_prompt_call]_vars

(***************************************************************************)
(* PromptFinalizer._assess_overall_quality on two inputs that differ in    *)
(* one respect                                                             *)
(***************************************************************************)
\* an input of _assess_overall_quality: the layout definition (an empty dict
\* has no zones), the number of text placements, whether there are adaptive
\* adjustments, and the lengths of the two prompts
AssessInputs ==
    {i \in [has_layout : BOOLEAN, n_zones : 0..MaxZones,
            n_text : 0..MaxPlacements, has_adaptive : BOOLEAN,
            mj_len : MjLens, dalle_len : DalleLens] :
        i.has_layout \/ i.n_zones = 0}

\* variant: the text mapping score counts the zones
_assess_overall_quality_countsZones(input) ==
    AssessOverallQuality(input.has_layout, input.n_zones, input.mj_len,
                         input.dalle_len, input.has_adaptive)

_assess_overall_quality(input) ==
    AssessOverallQuality(input.has_layout, input.n_text, input.mj_len,
                         input.dalle_len, input.has_adaptive)

\* the inputs that differ from input in exactly one respect
OneOff(input) ==
    ({[input EXCEPT !.n_zones = z] : z \in 0..MaxZones}
     \cup {[input EXCEPT !.n_text = t] : t \in 0..MaxPlacements}
     \cup {[input EXCEPT !.mj_len = mj] : mj \in MjLens}
     \cup {[input EXCEPT !.dalle_len = da] : da \in DalleLens}
     \cup {[input EXCEPT !.has_adaptive = ~ input.has_adaptive]})
    \cap (AssessInputs \ {input})

assess_overall_quality_pair ==
    /\ call.fn = "_assess_overall_quality"
    /\ ~ ret.done
    /\ ret' = [done |-> TRUE, raised |-> FALSE,
               a |-> _assess_overall_quality(call.a),
               b |-> _assess_overall_quality(call.b)]
    /\ UNCHANGED <<call, wfVars, intVars, ipVars>>

InitAssess ==
    /\ IdleWorkflow
    /\ IdleInput
    /\ \E a \in AssessInputs :
         \E b \in OneOff(a) :
            call = [fn |-> "_assess_overall_quality", a |-> a, b |-> b]
    /\ ret = NoRet

SpecAssess == InitAssess /\ [][assess_overall_quality_pair]_vars

\* the graph runner always runs the next node
FairSpec == Spec /\ WF_vars(Next)

(***************************************************************************)
(* Claims about the quality workflow (checked under Spec / FairSpec)       *)
(***************************************************************************)

\* C1: with max_attempts >= 1, current_attempt never exceeds max_attempts and
\* at most max_attempts - 1 optimisation nodes are executed in one run.
C1_BoundedOptimisation ==
    max_attempts >= 1 =>
        /\ current_attempt <= max_attempts
        /\ opt_runs <= max_attempts - 1

\* C2: every run of the workflow graph eventually reaches END.
C2_ReachesEnd == <>(node = "END")

\* C3 (as stated): after assess_quality_and_decide the workflow goes to an
\* optimisation node exactly when score < target and attempt < max_attempts,
\* and to END otherwise.
C3_AsStated ==
    [][node = "assess_quality" =>
         /\ node' \in OptNodes \cup {"END"}
         /\ (node' \in OptNodes) <=>
              (/\ current_quality_score' < target_quality_score
               /\ current_attempt' < max_attempts)]_vars

\* C3 (amended): after assess_quality_and_decide the workflow goes to an
\* optimisation node exactly when the workflow was not already completed by a
\* failed initial generation, score < target and attempt < max_attempts, and
\* to END otherwise.
C3_RouteDecision ==
    [][node = "assess_quality" =>
         /\ node' \in OptNodes \cup {"END"}
         /\ (node' \in OptNodes) <=>
              (/\ ~ workflow_completed
               /\ current_quality_score' < target_quality_score
               /\ current_attempt' < max_attempts)]_vars

\* a second assessment decided to continue
C3_Witness ==
    /\ node \in OptNodes
    /\ current_attempt >= 2
    /\ current_quality_score < target_quality_score

\* C4: the optimisation node that runs next is the one of the score bracket:
\* < 60 critical, 60..74 structure, 75..84 style, >= 85 fine tuning.
C4_BracketSelectsNode ==
    node \in OptNodes =>
        /\ (node = "optimize_critical") <=> (current_quality_score < 60)
        /\ (node = "optimize_structure") <=>
             (60 <= current_quality_score /\ current_quality_score < 75)
        /\ (node = "optimize_style") <=>
             (75 <= current_quality_score /\ current_quality_score < 85)
        /\ (node = "optimize_fine_tuning") <=> (current_quality_score >= 85)

\* a score on the limit between the structure and the style bracket
C4_Witness ==
    /\ node = "optimize_style"
    /\ current_quality_score = 75

\* C5: current_quality_score is an integer in 0..100 in every state, and so
\* are the values of the two fallback computations (prompt length, 87 + 2).
C5_ScoreInRange ==
    /\ current_quality_score \in 0..100
    /\ \A len \in DalleLens : InitialScore(FALSE, 0, len) \in 0..100
    /\ ReassessExceptScore \in 0..100

\* a score written by reassess_quality
C5_Witness ==
    /\ node = "assess_quality"
    /\ opt_runs >= 1
    /\ current_quality_score = FallbackScore + 5

\* C6: if initial generation raised, run_quality_workflow returns
\* success = False, workflow_completed = True and an error message.
C6_FailedGenerationReported ==
    (gen_failed /\ workflow_result.returned) =>
        /\ workflow_result.success = FALSE
        /\ workflow_result.workflow_completed = TRUE
        /\ workflow_result.error_message # "None"

\* C7: success is True only in states whose score is at least the target,
\* in the workflow state and in the returned result.
C7_SuccessMeansTarget ==
    /\ success => current_quality_score >= target_quality_score
    /\ (workflow_result.returned /\ workflow_result.success) =>
           workflow_result.final_quality_score >= target_quality_score

\* the target was reached after at least one optimisation
C7_Witness ==
    /\ workflow_result.returned
    /\ workflow_result.success
    /\ workflow_result.attempts_used >= 2

\* C8: image generation starts only after run_quality_workflow returned
\* success = True, with generate_image set and a non-empty final_prompt; a
\* failed workflow is returned as success = False with workflow_result
\* attached and without any image generation.
C8_ImageOnlyAfterSuccess ==
    /\ (stage = "image_generation" \/ image_calls > 0) =>
           /\ workflow_result.returned
           /\ workflow_result.success
           /\ generate_image
           /\ workflow_result.final_prompt \notin {"None", ""}
    /\ (stage = "returned" /\ ~ workflow_result.success) =>
           /\ enhanced_result.success = FALSE
           /\ enhanced_result.has_workflow_result
           /\ image_calls = 0

C8_Witness ==
    /\ stage = "returned"
    /\ image_calls = 1
    /\ image_result.success

\* C9: a failed image generation leaves the overall result successful:
\* success = True, workflow_success = True, image_success = False and
\* image_path = None.
C9_ImageFailureTolerated ==
    (stage = "returned" /\ image_calls > 0 /\ ~ image_result.success) =>
        /\ enhanced_result.success = TRUE
        /\ enhanced_result.workflow_success = "True"
        /\ enhanced_result.image_success = "False"
        /\ enhanced_result.image_path = "None"

C9_Witness ==
    /\ stage = "returned"
    /\ image_calls = 1
    /\ image_result.kind = "dict"
    /\ ~ image_result.success

(***************************************************************************)
(* Claims about InputProcessor.process (checked under SpecInput)           *)
(***************************************************************************)
ClaimFields == {"headline", "subline", "company", "location", "stellentitel",
                "position_long", "cta", "motiv_prompt"}

\* the caps as the claim states them
ClaimCap(field) ==
    CASE field = "headline" -> 50
      [] field = "subline" -> 60
      [] field = "company" -> 30
      [] field = "location" -> 25
      [] field = "stellentitel" -> 50
      [] field = "position_long" -> 40
      [] field = "cta" -> 25
      [] field = "motiv_prompt" -> 200

\* res is raw without its leading and trailing blanks
IsStripOf(res, raw) ==
    /\ Len(res) <= Len(raw)
    /\ res # <<>> => (res[1] # Space /\ res[Len(res)] # Space)
    /\ \E lead \in 0..(Len(raw) - Len(res)) :
         raw = Pad(lead) \o res \o Pad(Len(raw) - Len(res) - lead)

C10_Capped(f) == Len(structured.text[f]) <= ClaimCap(f)

C10_PassThrough(f) ==
    (raw_input[f].kind = "str" /\ Len(raw_input[f].text) <= ClaimCap(f)) =>
        IsStripOf(structured.text[f], raw_input[f].text)

\* C10 (as stated): every field respects its cap, a value within its cap is
\* passed through stripped, and a missing or non-string value becomes "".
C10_AsStated ==
    structured.done =>
        \A f \in ClaimFields :
            /\ C10_Capped(f)
            /\ C10_PassThrough(f)
            /\ raw_input[f].kind \in {"missing", "none", "int"} =>
                   structured.text[f] = <<>>

\* C10 (amended): as stated, except that a missing cta becomes the default
\* 'Jetzt bewerben!' instead of the empty string.
C10_NormalizedFields ==
    structured.done =>
        \A f \in ClaimFields :
            /\ C10_Capped(f)
            /\ C10_PassThrough(f)
            /\ raw_input[f].kind \in {"none", "int"} => structured.text[f] = <<>>
            /\ raw_input[f].kind = "missing" =>
                   structured.text[f] = IF f = "cta" THEN CtaDefault ELSE <<>>

\* an over-long headline was cut to exactly its cap while cta was missing
C10_Witness ==
    /\ structured.done
    /\ raw_input["cta"].kind = "missing"
    /\ Len(Strip(raw_input["headline"].text)) > 50
    /\ Len(structured.text["headline"]) = 50
    /\ SubSeq(structured.text["headline"], 48, 50) = Ellipsis

(***************************************************************************)
(* Claims about the CI colours (checked under SpecColors)                  *)
(***************************************************************************)
\* the entry of the raw input the colours are read from, by priority:
\* a dict ci_colors_palette, else the single colour fields if any is set,
\* else corporate_colors
C11_SuppliedValue(key) ==
    IF raw_colors.palette.kind = "dict" THEN raw_colors.palette.colors[key]
    ELSE IF \E k \in ColorKeys : raw_colors.fields[k].kind \notin {"missing", "none"}
    THEN raw_colors.fields[key]
    ELSE raw_colors.corporate.colors[key]

C11_WellFormed(text) ==
    /\ Len(text) \in {4, 7}
    /\ text[1] = 35

\* C11: ci_colors has exactly the five keys, every value starts with '#' and
\* has length 4 or 7, and it is the supplied value when that is such a string
\* and the key's default otherwise.
C11_CiColorsValid ==
    structured.done =>
        /\ DOMAIN structured.ci_colors =
             {"primary", "secondary", "accent", "background", "text"}
        /\ \A key \in DOMAIN structured.ci_colors :
             LET value == C11_SuppliedValue(key)
             IN /\ C11_WellFormed(structured.ci_colors[key])
                /\ structured.ci_colors[key] =
                     IF value.kind = "str" /\ value.text # <<>>
                        /\ C11_WellFormed(value.text)
                     THEN value.text ELSE DefaultColor(key)

\* a supplied '#...' of length 4 was kept while an invalid value of another
\* key was replaced by the default
C11_Witness ==
    /\ structured.done
    /\ \E key \in ColorKeys :
         /\ C11_SuppliedValue(key).kind = "str"
         /\ Len(C11_SuppliedValue(key).text) = 5
         /\ structured.ci_colors[key] = DefaultColor(key)
    /\ \E key \in ColorKeys :
         /\ Len(structured.ci_colors[key]) = 4
         /\ structured.ci_colors[key] # DefaultColor(key)

(***************************************************************************)
(* Claims about the adaptive rules (checked under SpecAdaptive)            *)
(***************************************************************************)
C12_Has(rule) == \E i \in 1..Len(ret.value) : ret.value[i] = rule

\* C12: _apply_adaptive_rules returns a long_headline adjustment exactly when
\* the layout defines that rule and len(headline) exceeds its threshold
\* (50 without trigger), a many_benefits adjustment exactly when the layout
\* defines that rule and the number of benefits exceeds its threshold
\* (5 without trigger), and nothing else.
C12_AdaptiveAdjustments ==
    (call.fn = "_apply_adaptive_rules" /\ ret.done) =>
        LET lh == call.layout_def.long_headline
            mb == call.layout_def.many_benefits
        IN /\ C12_Has("long_headline") <=>
                (lh.defined /\ call.headline_len > lh.threshold)
           /\ C12_Has("many_benefits") <=>
                (mb.defined /\ call.n_benefits > mb.threshold)
           /\ \A i \in 1..Len(ret.value) :
                ret.value[i] \in {"long_headline", "many_benefits"}
           /\ Len(ret.value) <= 2
           /\ Len(ret.value) = 2 => ret.value[1] # ret.value[2]

\* a headline of exactly 50 characters under the default trigger gives no
\* adjustment while the benefits exceed a trigger read from the layout
C12_Witness ==
    /\ call.fn = "_apply_adaptive_rules"
    /\ ret.done
    /\ call.layout_def.long_headline.defined
    /\ call.layout_def.long_headline.trigger.kind = "missing"
    /\ call.headline_len = 50
    /\ call.layout_def.many_benefits.trigger.kind = "str"
    /\ ret.value = <<"many_benefits">>

(***************************************************************************)
(* Claims about the DALL-E prompt (checked under SpecDalle)                *)
(***************************************************************************)
C13_TextElements ==
    {"headline", "subline", "company", "stellentitel", "benefits", "cta"}
\* the sections whose wording tells the image model to render text
C13_RenderInstructions ==
    {"TEXT-RENDERING AKTIVIERT", "ANWEISUNG: lesbare Schriftarten",
     "Text in Zone: LESBARE SCHRIFT", "Text in Zone: als lesbare Schrift",
     "als gut lesbare Schrift", "Text wird direkt im Bild gerendert",
     "TEXT-UMSETZUNG: als lesbare Schrift rendern",
     "TEXT-UMSETZUNG: direkt im Bild gerendert",
     "Alle Texte werden direkt im Bild gerendert",
     "Alle Texte werden mit lesbarer Schrift gerendert"}

\* C13: with enable_text_rendering False the prompt that
\* _generate_dalle_prompt returns holds no content string of the headline,
\* subline, company, stellentitel, benefits or cta placement and no
\* instruction to render text in the image.
C13_NoTextWithoutRendering ==
    (call.fn = "_generate_dalle_prompt" /\ ret.done
        /\ ~ call.enable_text_rendering) =>
        \A i \in 1..Len(ret.value) :
            /\ ret.value[i].element \in C13_TextElements
                   => ret.value[i].content = <<>>
            /\ ret.value[i].tag \notin C13_RenderInstructions

(***************************************************************************)
(* Claims about the prompt handed to the image generator (SpecCreative)    *)
(***************************************************************************)
\* C14: generate_creative_from_multiprompt_result passes the cinematic
\* prompt on when there is one and dalle_prompt otherwise; when the
\* cinematic prompt is the fallback of a failed generation (empty
\* full_prompt, metadata.error) it passes dalle_prompt, never the empty
\* string.
C14_PromptPassedOn ==
    (call.fn = "generate_creative_from_multiprompt_result" /\ ret.done) =>
        LET result == call.multiprompt_result
            cinematic == result.cinematic_prompt
        IN /\ cinematic.error =>
                /\ ret.value.prompt = result.dalle_prompt
                /\ ret.value.prompt # <<>>
           /\ (cinematic.kind # "None" /\ ~ cinematic.error) =>
                ret.value.prompt = cinematic.full_prompt
           /\ cinematic.kind = "None" =>
                ret.value.prompt = result.dalle_prompt

(***************************************************************************)
(* Claims about optimize_prompt_with_gpt4 (checked under Spec)             *)
(***************************************************************************)
\* C15: optimize_prompt_with_gpt4 never raises; without OPENAI_API_KEY or
\* when the API call fails it returns its prompt argument, so the
\* optimisation node that called it leaves current_prompt as it was.
C15_GptFailureKeepsPrompt ==
    call.fn = "optimize_prompt_with_gpt4" =>
        /\ ret.done
        /\ ~ ret.raised
        /\ call.api \in {"no_key", "failed"} =>
              /\ ret.value = call.prompt
              /\ current_prompt = call.prompt

\* an optimisation node ran while the API call failed and kept the initial
\* prompt
C15_Witness ==
    /\ call.fn = "optimize_prompt_with_gpt4"
    /\ call.api = "failed"
    /\ node = "reassess_quality"
    /\ call.prompt = "dalle"
    /\ current_prompt = "dalle"
    /\ current_attempt = 2

(***************************************************************************)
(* Claims about auto_optimize_prompt_quality (SpecAutoOptimize)            *)
(***************************************************************************)
\* C16: auto_optimize_prompt_quality revises only while current_score <
\* min_score and retries_used < max_retries: at most max_retries revisions,
\* none when the initial score is already >= min_score, optimization_history
\* has exactly retries_used entries, and the returned flag is True exactly
\* when the final score is >= min_score.
C16_BoundedRevisions ==
    (call.fn = "auto_optimize_prompt_quality" /\ ret # NoRet) =>
        /\ ret.revisions <= call.max_retries
        /\ ret.initial_score >= call.min_score => ret.revisions = 0
        /\ Len(ret.optimization_history) = ret.retries_used
        /\ \A i \in 1..Len(ret.optimization_history) :
             /\ ret.optimization_history[i].score_before < call.min_score
             /\ ret.optimization_history[i].retry_number = i
             /\ i <= call.max_retries
        /\ ret.done =>
             /\ ret.optimization_successful
                    <=> (ret.current_score >= call.min_score)
             /\ ret.revisions = ret.retries_used
             /\ \/ ret.current_score >= call.min_score
                \/ ret.retries_used >= call.max_retries

\* two revisions were allowed and made, the second one reached the target
C16_Witness ==
    /\ call.fn = "auto_optimize_prompt_quality"
    /\ ret # NoRet
    /\ ret.done
    /\ call.max_retries = 2
    /\ ret.retries_used = 2
    /\ Len(ret.optimization_history) = 2
    /\ ret.optimization_successful
    /\ ret.initial_score < call.min_score

(***************************************************************************)
(* Claims about the prompt length limits                                   *)
(***************************************************************************)
\* C17: EnhancedCreativeGenerator._optimize_prompt returns at most 4000
\* characters whatever the length and line structure of the GPT-4-optimised
\* text, a single line of more than 4000 characters included.
C17_AtMost4000 ==
    (call.fn = "EnhancedCreativeGenerator._optimize_prompt" /\ ret.done) =>
        JoinedLen(ret.value) <= 4000

\* a single line of 4001 characters: nothing of it is kept
C17_Witness ==
    /\ call.fn = "EnhancedCreativeGenerator._optimize_prompt"
    /\ ret.done
    /\ Len(call.optimized) = 1
    /\ call.optimized[1].len = 4001
    /\ ret.value = <<>>

\* C18: GPT5ImageGenerator._optimize_prompt never returns a prompt of more
\* than 1000 characters.
C18_AtMost1000 ==
    (call.fn = "GPT5ImageGenerator._optimize_prompt" /\ ret.done) =>
        ret.value.kept + ret.value.suffix <= 1000

(***************************************************************************)
(* Claims about the heuristic score (checked under SpecAssess)             *)
(***************************************************************************)
C19_InMjBounds(n) == 200 <= n /\ n <= 800
C19_InDalleBounds(n) == n <= 4000

\* the two prompt length bounds each change the score
C19_LengthBoundsCount ==
    (call.fn = "_assess_overall_quality" /\ ret.done) =>
        /\ (call.a.mj_len # call.b.mj_len) =>
              (ret.a # ret.b <=>
                  C19_InMjBounds(call.a.mj_len) # C19_InMjBounds(call.b.mj_len))
        /\ (call.a.dalle_len # call.b.dalle_len) =>
              (ret.a # ret.b <=>
                  C19_InDalleBounds(call.a.dalle_len)
                      # C19_InDalleBounds(call.b.dalle_len))

C20_TargetBeforeLimit ==
    [][node = "assess_quality" =>
         /\ current_quality_score' >= target_quality_score =>
               /\ success'
               /\ workflow_completed'
               /\ node' = "END"
         /\ (node' = "END" /\ ~ success') =>
               current_quality_score' < target_quality_score]_vars

\* the target was reached by the optimisation that used up the last attempt
C20_Witness ==
    /\ node = "END"
    /\ success
    /\ max_attempts >= 2
    /\ current_attempt >= max_attempts
    /\ opt_runs >= 1
    /\ current_quality_score >= target_quality_score

(***************************************************************************)
(* Claims about reassess_quality and current_attempt (checked under Spec)  *)
(***************************************************************************)
C21_Bonus(strategy) ==
    CASE strategy = "critical_optimization" -> 5
      [] strategy = "structure_optimization" -> 3
      [] strategy = "style_optimization" -> 2
      [] strategy = "fine_tuning" -> 1
      [] OTHER -> 0

\* C21: reassess_quality computes the new score from the assessment of the
\* initial result: after the first optimisation step of a run whose initial
\* generation succeeded (current_quality_score still is the initial
\* overall_score), a reassessment that completes sets current_quality_score
\* to min(100, initial overall_score + strategy bonus), the bonus being 5, 3,
\* 2 or 1 for critical, structure, style optimisation or fine tuning.
C21_ReassessFromInitial ==
    [][(/\ node = "reassess_quality"
        /\ opt_runs = 1
        /\ ~ gen_failed
        /\ quality_history' # quality_history) =>
          current_quality_score' =
              (IF current_quality_score + C21_Bonus(optimization_strategy) > 100
               THEN 100
               ELSE current_quality_score + C21_Bonus(optimization_strategy))]_vars

\* C22: current_attempt starts at 1 and never decreases; an optimisation
\* node that completes normally increases it by exactly 1 and no other step
\* changes it; so the returned attempts_used is 1 + the number of optimisation
\* nodes that completed normally.
C22_AttemptCounts ==
    /\ current_attempt = 1
    /\ [][/\ current_attempt' >= current_attempt
          /\ IF node \in OptNodes /\ opt_completed' # opt_completed
             THEN current_attempt' = current_attempt + 1
             ELSE current_attempt' = current_attempt]_vars
    /\ [](workflow_result.returned =>
             workflow_result.attempts_used = 1 + opt_completed)

\* a run of three attempts in which one more optimisation node ran and failed
C22_Witness ==
    /\ workflow_result.returned
    /\ workflow_result.attempts_used = 3
    /\ opt_completed = 2
    /\ opt_runs = 3

====
